---- MODULE Spec2Model ----
(***************************************************************************)
(* SalaMANdER: Solid Mechanics And Nonlinear Elasticity Routines.          *)
(*                                                                         *)
(* A model of SalaMANdER.py: the elastic-parameter conversions, the        *)
(* abstract MaterialModel with its shared residuals and kinematic helper,  *)
(* and the three concrete laws.                                            *)
(*                                                                         *)
(* Values.  The module builds symbolic expressions over dolfin/UFL; the    *)
(* model evaluates them exactly.  A scalar is a rational <<n, d>> in       *)
(* lowest terms with d > 0; <<1, 0>> is the singular value a division by   *)
(* zero produces, and it propagates through every operation (the module    *)
(* never tests for it).  A vector is a sequence of scalars, a tensor a     *)
(* sequence of rows.  A field is given by its shape, its value and its     *)
(* gradient at a point, and a measure (dx, ds) has unit weight, so an      *)
(* integral is the value of its integrand.  J**(-2/3) is not rational: the *)
(* Neo-Hookean stress and residual keep it as a symbol, as a record        *)
(* [pw, rat] standing for  pw * J**(-2/3) + rat.                           *)
(***************************************************************************)
EXTENDS Integers, Sequences, FiniteSets, TLC

VARIABLES objs, heap, last

vars == <<objs, heap, last>>

(***************************************************************************)
(* Bounds of the model.                                                    *)
(***************************************************************************)
\* Largest number of spatial dimensions of a displacement field.
MaxDim == 2
\* Largest magnitude of an entry of a displacement gradient.
MaxAmp == 1
\* Largest number of material instances alive at once.
MaxInst == 2

(***************************************************************************)
(* Exact scalars.                                                          *)
(***************************************************************************)
Abs(n) == IF n < 0 THEN -n ELSE n

RECURSIVE Gcd(_, _)
Gcd(a, b) == IF b = 0 THEN a ELSE Gcd(b, a % b)

Sing == <<1, 0>>

IsSing(a) == a[2] = 0

RNorm(n, d) ==
    IF d = 0 THEN Sing
    ELSE LET g == Gcd(Abs(n), Abs(d))
             s == IF d < 0 THEN -1 ELSE 1
         IN  <<(s * n) \div g, (s * d) \div g>>

R(n) == <<n, 1>>

Q(n, d) == RNorm(n, d)

RAdd(a, b) ==
    IF IsSing(a) \/ IsSing(b) THEN Sing
    ELSE RNorm(a[1] * b[2] + b[1] * a[2], a[2] * b[2])

RNeg(a) == IF IsSing(a) THEN Sing ELSE <<-a[1], a[2]>>

RSub(a, b) == RAdd(a, RNeg(b))

RMul(a, b) ==
    IF IsSing(a) \/ IsSing(b) THEN Sing
    ELSE RNorm(a[1] * b[1], a[2] * b[2])

RDiv(a, b) ==
    IF IsSing(a) \/ IsSing(b) THEN Sing
    ELSE RNorm(a[1] * b[2], a[2] * b[1])

RECURSIVE RPowNat(_, _)
RPowNat(a, k) == IF k = 0 THEN R(1) ELSE RMul(a, RPowNat(a, k - 1))

\* pow(a, p) for an integer-valued exponent p (the exponents the model draws).
pow(a, p) ==
    IF IsSing(a) \/ IsSing(p) \/ p[2] # 1 THEN Sing
    ELSE IF p[1] >= 0 THEN RPowNat(a, p[1])
    ELSE RDiv(R(1), RPowNat(a, -p[1]))

(***************************************************************************)
(* Vectors and tensors.                                                    *)
(***************************************************************************)
RECURSIVE RSumTo(_, _)
RSumTo(f, n) == IF n = 0 THEN R(0) ELSE RAdd(RSumTo(f, n - 1), f[n])

Identity(n) == [i \in 1..n |-> [j \in 1..n |-> IF i = j THEN R(1) ELSE R(0)]]

ZeroTensor(n) == [i \in 1..n |-> [j \in 1..n |-> R(0)]]

ZeroVector(n) == [i \in 1..n |-> R(0)]

MAdd(A, B) == LET n == Len(A) IN [i \in 1..n |-> [j \in 1..n |-> RAdd(A[i][j], B[i][j])]]

MSub(A, B) == LET n == Len(A) IN [i \in 1..n |-> [j \in 1..n |-> RSub(A[i][j], B[i][j])]]

MScale(r, A) == LET n == Len(A) IN [i \in 1..n |-> [j \in 1..n |-> RMul(r, A[i][j])]]

MDivS(A, r) == LET n == Len(A) IN [i \in 1..n |-> [j \in 1..n |-> RDiv(A[i][j], r)]]

MMul(A, B) ==
    LET n == Len(A)
    IN  [i \in 1..n |-> [j \in 1..n |->
            RSumTo([k \in 1..n |-> RMul(A[i][k], B[k][j])], n)]]

Transpose(A) == LET n == Len(A) IN [i \in 1..n |-> [j \in 1..n |-> A[j][i]]]

tr(A) == RSumTo([i \in 1..Len(A) |-> A[i][i]], Len(A))

\* A with row i and column j removed.
Minor(A, i, j) ==
    [r \in 1..(Len(A) - 1) |-> [c \in 1..(Len(A) - 1) |->
        A[IF r < i THEN r ELSE r + 1][IF c < j THEN c ELSE c + 1]]]

RECURSIVE det(_)
det(A) ==
    IF Len(A) = 0 THEN R(1)
    ELSE IF Len(A) = 1 THEN A[1][1]
    ELSE RSumTo([j \in 1..Len(A) |->
                   RMul(RMul(R(IF j % 2 = 1 THEN 1 ELSE -1), A[1][j]),
                        det(Minor(A, 1, j)))], Len(A))

\* The adjugate over the determinant; every entry is singular when det(A) = 0.
inv(A) ==
    LET d == det(A)
    IN  [i \in 1..Len(A) |-> [j \in 1..Len(A) |->
            RDiv(RMul(R(IF (i + j) % 2 = 0 THEN 1 ELSE -1), det(Minor(A, j, i))), d)]]

\* inner product of two tensors, or of two vectors.
inner(A, B) ==
    RSumTo([i \in 1..Len(A) |->
              RSumTo([j \in 1..Len(A) |-> RMul(A[i][j], B[i][j])], Len(A))], Len(A))

vinner(a, b) == RSumTo([i \in 1..Len(a) |-> RMul(a[i], b[i])], Len(a))

VSub(a, b) == [i \in 1..Len(a) |-> RSub(a[i], b[i])]

VScale(r, a) == [i \in 1..Len(a) |-> RMul(r, a[i])]

\* grad(u) of a field.
grad(u) == u.grad

(***************************************************************************)
(* Elastic-parameter conversions.                                          *)
(***************************************************************************)
\* firstLameParameter with (1-nu) written for (1-2*nu).
firstLameParameter_Typo(E, nu) ==
    RDiv(RMul(E, nu), RMul(RAdd(R(1), nu), RSub(R(1), nu)))

firstLameParameter(E, nu) ==
    RDiv(RMul(E, nu),
         RMul(RAdd(R(1), nu), RSub(R(1), RMul(R(2), nu))))

secondLameParameter(E, nu) == RDiv(E, RMul(R(2), RAdd(R(1), nu)))

bulkModulus(E, nu) ==
    RAdd(firstLameParameter(E, nu),
         RMul(RDiv(R(2), R(3)), secondLameParameter(E, nu)))

shearModulus(E, nu) == secondLameParameter(E, nu)

(***************************************************************************)
(* Classes.  MaterialModel derives from ABC and declares interiorResidual  *)
(* abstract; each law's class body defines interiorResidual alone.         *)
(* "Subclass" stands for a subclass written without interiorResidual.      *)
(***************************************************************************)
Laws == {"StVenantKirchoff", "NeoHookean", "JacobianStiffening"}

Classes == {"MaterialModel", "Subclass"} \cup Laws

SharedResiduals ==
    {"accelerationResidual", "massDampingResidual", "bodyforceResidual",
     "tractionBCResidual", "penaltyWeakBCResidual"}

\* The names a class body defines.
Defines(cls) ==
    IF cls = "MaterialModel"
    THEN {"__init__", "interiorResidual", "getBasicTensors"} \cup SharedResiduals
    ELSE IF cls \in Laws THEN {"interiorResidual"}
    ELSE {}

\* The names a class body marks @abstractmethod.
MarkedAbstract(cls) == IF cls = "MaterialModel" THEN {"interiorResidual"} ELSE {}

Base(cls) == IF cls = "MaterialModel" THEN "ABC" ELSE "MaterialModel"

\* abstractmethods reading the class's own body alone.
abstractmethods_OwnBody(cls) == MarkedAbstract(cls)

\* ABCMeta: the abstract names of a class are those its body marks, and those
\* of its base its body does not define.
RECURSIVE abstractmethods(_)
abstractmethods(cls) ==
    IF cls = "ABC" THEN {}
    ELSE MarkedAbstract(cls) \cup (abstractmethods(Base(cls)) \ Defines(cls))

\* Attribute lookup along the class's bases: the class that supplies a method.
RECURSIVE Resolve(_, _)
Resolve(cls, name) ==
    IF cls = "ABC" THEN "ABC"
    ELSE IF name \in Defines(cls) THEN cls
    ELSE Resolve(Base(cls), name)

(***************************************************************************)
(* Outcomes of a call: a returned value, or the exception that ended it.   *)
(***************************************************************************)
Returns(v) == [status |-> "ok", value |-> v]

Raises(exc, what) == [status |-> exc, value |-> what]

\* A dict is the set of its <<key, value>> items, one per key.
Keys(d) == {it[1] : it \in d}

\* self.props[key] is defined exactly when key is one of the dict's keys.
HasKey(self, key) == key \in Keys(self.props)

PropsGet(self, key) == (CHOOSE it \in self.props : it[1] = key)[2]

(***************************************************************************)
(* MaterialModel: the shared residuals and the kinematic helper.  self is  *)
(* the instance with its dict read through: [cls, rho, props].             *)
(***************************************************************************)
\* The weight of the measures dx and ds.
dx == R(1)

ds == R(1)

accelerationResidual(self, du_dtt, v) ==
    RMul(RMul(self.rho, vinner(du_dtt, v)), dx)

massDampingResidual(self, du_dt, c, v) ==
    RMul(RMul(RMul(self.rho, c), vinner(du_dt, v)), dx)

\* bodyforceResidual as it would be with NeoHookean overriding it, sign lost.
bodyforceResidual_Overridden(self, f, v) ==
    IF self.cls = "NeoHookean"
    THEN RMul(RMul(self.rho, vinner(f, v)), dx)
    ELSE RMul(RMul(RNeg(self.rho), vinner(f, v)), dx)

bodyforceResidual(self, f, v) ==
    RMul(RMul(RNeg(self.rho), vinner(f, v)), dx)

tractionBCResidual(self, h, v) ==
    RMul(RNeg(vinner(v, h)), ds)

penaltyWeakBCResidual(self, u, v, g, beta) ==
    RMul(RNeg(vinner(VScale(beta, VSub(u, g)), v)), ds)

getBasicTensors(self, u) ==
    LET nsd == IF u.ufl_shape = <<>> THEN 0 ELSE u.ufl_shape[1]
        I == Identity(nsd)
        F == MAdd(grad(u), I)
        J == det(F)
        C == MMul(Transpose(F), F)
        E == MScale(Q(1, 2), MSub(C, I))
    IN  [I |-> I, F |-> F, J |-> J, C |-> C, E |-> E]

(***************************************************************************)
(* StVenantKirchoff.                                                       *)
(***************************************************************************)
\* The stress written on C = 2E + I in place of E.
StVenantKirchoff_S_OfC(kappa, mu, I, E) ==
    LET C == MAdd(MScale(R(2), E), I)
    IN  MAdd(MScale(RMul(kappa, tr(C)), I),
             MScale(RMul(R(2), mu), MSub(C, MDivS(MScale(tr(C), I), R(3)))))

StVenantKirchoff_S(kappa, mu, I, E) ==
    MAdd(MScale(RMul(kappa, tr(E)), I),
         MScale(RMul(R(2), mu), MSub(E, MDivS(MScale(tr(E), I), R(3)))))

\* interiorResidual reading its properties with a default of 0.
StVenantKirchoff_interiorResidual_Defaulting(self, u, v) ==
    LET T == getBasicTensors(self, u)
        kappa == IF HasKey(self, "kappa") THEN PropsGet(self, "kappa") ELSE R(0)
        mu == IF HasKey(self, "mu") THEN PropsGet(self, "mu") ELSE R(0)
        S == MAdd(MScale(RMul(kappa, tr(T.E)), T.I),
                  MScale(RMul(R(2), mu), MSub(T.E, MDivS(MScale(tr(T.E), T.I), R(3)))))
    IN  Returns([S |-> S, form |-> RMul(inner(MMul(T.F, S), grad(v)), dx)])

StVenantKirchoff_interiorResidual(self, u, v) ==
    LET T == getBasicTensors(self, u)
    IN  IF ~HasKey(self, "kappa") THEN Raises("KeyError", "kappa")
        ELSE IF ~HasKey(self, "mu") THEN Raises("KeyError", "mu")
        ELSE LET S == StVenantKirchoff_S(PropsGet(self, "kappa"), PropsGet(self, "mu"), T.I, T.E)
             IN  Returns([S |-> S,
                          form |-> RMul(inner(MMul(T.F, S), grad(v)), dx)])

(***************************************************************************)
(* NeoHookean.  S0 is [isNone |-> TRUE] when the argument is omitted.      *)
(***************************************************************************)
None == [isNone |-> TRUE, val |-> <<>>]

Some(M) == [isNone |-> FALSE, val |-> M]

\* S0 defaulting to the identity.
NeoHookean_S0_Identity(S0, I) == IF S0 = None THEN I ELSE S0.val

\* The value S0 has after the test of S0 == None.
NeoHookean_S0(S0, I) == IF S0 = None THEN MScale(R(0), I) ELSE S0.val

\* S without the (3-nsd) term, as the formula reads in three dimensions.
NeoHookean_S_ThreeDimensional(kappa, mu, I, J, C) ==
    [pw  |-> MScale(mu, MSub(I, MScale(RDiv(tr(C), R(3)), inv(C)))),
     rat |-> MScale(RMul(RDiv(kappa, R(2)), RSub(RMul(J, J), R(1))), inv(C))]

\* S as [pw, rat]: the tensor multiplying J**(-2/3), and the rest.
NeoHookean_S(kappa, mu, I, J, C) ==
    LET nsd == tr(I)
    IN  [pw  |-> MScale(mu, MSub(I, MScale(RDiv(RAdd(tr(C), RSub(R(3), nsd)), R(3)),
                                           inv(C)))),
         rat |-> MScale(RMul(RDiv(kappa, R(2)), RSub(RMul(J, J), R(1))), inv(C))]

NeoHookean_interiorResidual(self, u, v, S0) ==
    LET T == getBasicTensors(self, u)
        S0v == NeoHookean_S0(S0, T.I)
    IN  IF ~HasKey(self, "mu") THEN Raises("KeyError", "mu")
        ELSE IF ~HasKey(self, "kappa") THEN Raises("KeyError", "kappa")
        ELSE LET S == NeoHookean_S(PropsGet(self, "kappa"), PropsGet(self, "mu"), T.I, T.J, T.C)
             IN  Returns([S |-> S,
                          form |-> [pw  |-> RMul(inner(MMul(T.F, S.pw), grad(v)), dx),
                                    rat |-> RMul(inner(MMul(T.F, MAdd(S.rat, S0v)),
                                                       grad(v)), dx)]])

(***************************************************************************)
(* JacobianStiffening.                                                     *)
(***************************************************************************)
fictitious_E == R(1)

fictitious_nu == Q(3, 10)

\* K with the commented-out scaling by the law's own Jacobian in force.
JacobianStiffening_K_OwnJacobian(power_J_M, J, J_M) ==
    RDiv(bulkModulus(RDiv(fictitious_E, pow(J_M, power_J_M)), fictitious_nu),
         pow(J, power_J_M))

\* J, the law's own Jacobian, is in scope where K and mu are computed.
JacobianStiffening_K(power_J_M, J, J_M) ==
    bulkModulus(RDiv(fictitious_E, pow(J_M, power_J_M)), fictitious_nu)

JacobianStiffening_mu(power_J_M, J, J_M) ==
    shearModulus(RDiv(fictitious_E, pow(J_M, power_J_M)), fictitious_nu)

JacobianStiffening_S(K, mu, I, E) ==
    MAdd(MScale(RMul(K, tr(E)), I),
         MScale(RMul(R(2), mu), MSub(E, MDivS(MScale(tr(E), I), R(3)))))

JacobianStiffening_interiorResidual(self, u, v, J_M) ==
    LET T == getBasicTensors(self, u)
    IN  IF ~HasKey(self, "power_J_M") THEN Raises("KeyError", "power_J_M")
        ELSE LET K == JacobianStiffening_K(PropsGet(self, "power_J_M"), T.J, J_M)
                 mu == JacobianStiffening_mu(PropsGet(self, "power_J_M"), T.J, J_M)
                 S == JacobianStiffening_S(K, mu, T.I, T.E)
             IN  Returns([S |-> S, K |-> K, mu |-> mu,
                          form |-> RMul(inner(MMul(T.F, S), grad(v)), dx)])

(***************************************************************************)
(* Instances.  objs is the sequence of instances constructed so far, each  *)
(* [cls, rho, props] with props the address in heap of its dict.  last is   *)
(* where the calling script stands: Idle between two operations, or the    *)
(* operation that has just ended, with its arguments and its outcome.      *)
(***************************************************************************)
Idle == [op |-> "idle"]

\* The instance at index i with its dict read through.
Self(i) == [cls |-> objs[i].cls, rho |-> objs[i].rho, props |-> heap[objs[i].props]]

\* A vector field of n components with the given value and gradient.
Field(n, val, gradM) == [ufl_shape |-> <<n>>, val |-> val, grad |-> gradM]

Init ==
    /\ objs = <<>>
    /\ heap = <<>>
    /\ last = Idle

\* cls(rho, **props): ABCMeta refuses a class with abstract names left; else
\* __init__ stores rho and the dict that ** builds afresh for this call.
Construct(cls, rho, props) ==
    IF abstractmethods(cls) # {}
    THEN /\ last' = [op |-> "__init__", cls |-> cls,
                     args |-> [rho |-> rho, props |-> props],
                     out |-> Raises("TypeError", cls)]
         /\ UNCHANGED <<objs, heap>>
    ELSE /\ heap' = Append(heap, props)
         /\ objs' = Append(objs, [cls |-> cls,
                                  rho |-> IF rho = None THEN R(0) ELSE rho.val,
                                  props |-> Len(heap) + 1])
         /\ last' = [op |-> "__init__", cls |-> cls,
                     args |-> [rho |-> rho, props |-> props],
                     out |-> Returns(Len(objs) + 1)]

CallStVenantKirchoff(i, u, v) ==
    /\ Resolve(objs[i].cls, "interiorResidual") = "StVenantKirchoff"
    /\ last' = [op |-> "interiorResidual", self |-> i, cls |-> objs[i].cls,
                args |-> [u |-> u, v |-> v],
                out |-> StVenantKirchoff_interiorResidual(Self(i), u, v)]
    /\ UNCHANGED <<objs, heap>>

CallNeoHookean(i, u, v, S0) ==
    /\ Resolve(objs[i].cls, "interiorResidual") = "NeoHookean"
    /\ last' = [op |-> "interiorResidual", self |-> i, cls |-> objs[i].cls,
                args |-> [u |-> u, v |-> v, S0 |-> S0],
                out |-> NeoHookean_interiorResidual(Self(i), u, v, S0)]
    /\ UNCHANGED <<objs, heap>>

\* interiorResidual storing a default exponent in the dict when it has none.
CallJacobianStiffening_SetDefault(i, u, v, J_M) ==
    /\ Resolve(objs[i].cls, "interiorResidual") = "JacobianStiffening"
    /\ heap' = [heap EXCEPT ![objs[i].props] =
                    IF "power_J_M" \in Keys(@) THEN @ ELSE @ \cup {<<"power_J_M", R(1)>>}]
    /\ last' = [op |-> "interiorResidual", self |-> i, cls |-> objs[i].cls,
                args |-> [u |-> u, v |-> v, J_M |-> J_M],
                out |-> JacobianStiffening_interiorResidual(
                           [Self(i) EXCEPT !.props = heap'[objs[i].props]], u, v, J_M)]
    /\ UNCHANGED objs

CallJacobianStiffening(i, u, v, J_M) ==
    /\ Resolve(objs[i].cls, "interiorResidual") = "JacobianStiffening"
    /\ last' = [op |-> "interiorResidual", self |-> i, cls |-> objs[i].cls,
                args |-> [u |-> u, v |-> v, J_M |-> J_M],
                out |-> JacobianStiffening_interiorResidual(Self(i), u, v, J_M)]
    /\ UNCHANGED <<objs, heap>>

\* The shared residual a class supplies under the name op, applied.  a is the
\* record of arguments: [w, v] and, by name, c, or g and beta.
InvokeShared(op, self, a) ==
    CASE op = "accelerationResidual" -> accelerationResidual(self, a.w, a.v)
      [] op = "massDampingResidual" -> massDampingResidual(self, a.w, a.c, a.v)
      [] op = "bodyforceResidual" -> bodyforceResidual(self, a.w, a.v)
      [] op = "tractionBCResidual" -> tractionBCResidual(self, a.w, a.v)
      [] op = "penaltyWeakBCResidual" ->
             penaltyWeakBCResidual(self, a.w, a.v, a.g, a.beta)

CallShared(i, op, a) ==
    /\ Resolve(objs[i].cls, op) = "MaterialModel"
    /\ last' = [op |-> op, self |-> i, cls |-> objs[i].cls, args |-> a,
                out |-> Returns(InvokeShared(op, Self(i), a))]
    /\ UNCHANGED <<objs, heap>>

CallGetBasicTensors(i, u) ==
    /\ Resolve(objs[i].cls, "getBasicTensors") = "MaterialModel"
    /\ last' = [op |-> "getBasicTensors", self |-> i, cls |-> objs[i].cls,
                args |-> [u |-> u],
                out |-> Returns(getBasicTensors(Self(i), u))]
    /\ UNCHANGED <<objs, heap>>

\* The script takes the outcome of the operation that ended and goes on.
Continue ==
    /\ last # Idle
    /\ last' = Idle
    /\ UNCHANGED <<objs, heap>>

(***************************************************************************)
(* The conversions and the St. Venant-Kirchhoff stress, applied on their   *)
(* own to drawn arguments.                                                 *)
(***************************************************************************)
Convert(f, E, nu) ==
    /\ last' = [op |-> f, args |-> [E |-> E, nu |-> nu],
                out |-> Returns(CASE f = "bulkModulus" -> bulkModulus(E, nu)
                                  [] f = "shearModulus" -> shearModulus(E, nu)
                                  [] f = "firstLameParameter" -> firstLameParameter(E, nu)
                                  [] f = "secondLameParameter" -> secondLameParameter(E, nu))]
    /\ UNCHANGED <<objs, heap>>

EvalStVenantKirchoffS(kappa, mu, E) ==
    /\ last' = [op |-> "StVenantKirchoff_S",
                args |-> [kappa |-> kappa, mu |-> mu, E |-> E],
                out |-> Returns(StVenantKirchoff_S(kappa, mu, Identity(Len(E)), E))]
    /\ UNCHANGED <<objs, heap>>

(***************************************************************************)
(* The arguments drawn.                                                    *)
(***************************************************************************)
\* The n x n tensor with a at (i, j) and 0 elsewhere.
SingleEntry(n, i, j, a) ==
    [r \in 1..n |-> [c \in 1..n |-> IF r = i /\ c = j THEN R(a) ELSE R(0)]]

\* The n-vector with a at i and 0 elsewhere.
SingleComponent(n, i, a) == [r \in 1..n |-> IF r = i THEN R(a) ELSE R(0)]

\* Displacement gradients: none, and one stretch or shear of amplitude a.
Grads(n) ==
    {ZeroTensor(n)} \cup
    {SingleEntry(n, i, j, a) : i \in 1..n, j \in 1..n, a \in (-MaxAmp..MaxAmp) \ {0}}

\* Gradients of test functions: a basis of the n x n tensors.
BasisGrads(n) == {SingleEntry(n, i, j, 1) : i \in 1..n, j \in 1..n}

\* Symmetric tensors, as strains are.
SymTensors(n) == {MAdd(G, Transpose(G)) : G \in Grads(n)}

Dims == 1..MaxDim

\* Bulk and shear moduli, and stiffening exponents.
Moduli == {R(3), Q(1, 2)}

Powers == {R(-1), R(0), R(2)}

\* Values of the mesh Jacobian J_M, which is not zero.
MeshJacobians == {R(1), R(2), Q(1, 2)}

\* Young's moduli and Poisson's ratios; nu = -1 and nu = 1/2 divide by zero.
Youngs == {R(0), R(1), Q(5, 2), R(-3)}

Poissons == {R(0), Q(3, 10), Q(1, 2), R(-1), Q(-1, 4), R(2)}

Scalings == {R(0), R(2), Q(-1, 3)}

Conversions ==
    {"bulkModulus", "shearModulus", "firstLameParameter", "secondLameParameter"}

\* The dicts a law is constructed with when its values are what matters.
EvalProps(cls) ==
    IF cls = "JacobianStiffening"
    THEN {{<<"power_J_M", p>>} : p \in Powers}
    ELSE {{<<"kappa", k>>, <<"mu", m>>} : k \in Moduli, m \in Moduli}

\* The dicts a class is constructed with when its keys are what matters.
LifeProps(cls) ==
    IF cls = "JacobianStiffening"
    THEN {{}, {<<"power", R(2)>>}, {<<"power_J_M", R(2)>>}}
    ELSE IF cls \in Laws
    THEN {{}, {<<"kappa", R(3)>>}, {<<"mu", R(1)>>},
          {<<"kappa", R(3)>>, <<"mu", R(1)>>}}
    ELSE {{}}

\* The constructor calls: every class with each of its dicts and the default
\* density, and every law with all its keys and a density of 2.
LifeCalls ==
    UNION {{<<cls, None, props>> : props \in LifeProps(cls)} : cls \in Classes}
    \cup {<<"StVenantKirchoff", Some(R(2)), {<<"kappa", R(3)>>, <<"mu", R(1)>>}>>,
          <<"NeoHookean", Some(R(2)), {<<"kappa", R(3)>>, <<"mu", R(1)>>}>>,
          <<"JacobianStiffening", Some(R(2)), {<<"power_J_M", R(2)>>}>>}

\* Two-dimensional fields: at rest and sheared; one test function.
LifeU == {Field(2, ZeroVector(2), G) : G \in {ZeroTensor(2), SingleEntry(2, 1, 2, 1)}}

LifeV == {Field(2, ZeroVector(2), SingleEntry(2, 1, 2, 1))}

\* The arguments of a shared residual, by name.
SharedArgs(op) ==
    LET w == SingleComponent(2, 1, 3)
        vs == {<<R(1), R(-1)>>}
    IN  IF op = "massDampingResidual"
        THEN {[w |-> w, v |-> v, c |-> R(5)] : v \in vs}
        ELSE IF op = "penaltyWeakBCResidual"
        THEN {[w |-> w, v |-> v, g |-> SingleComponent(2, 2, 1), beta |-> R(7)] : v \in vs}
        ELSE {[w |-> w, v |-> v] : v \in vs}

(***************************************************************************)
(* Spec: instances of every class are constructed, with and without their  *)
(* required keys, and any operation is called on any of them.              *)
(***************************************************************************)
Next ==
    \/ /\ last = Idle
       /\ Len(objs) < MaxInst
       /\ \E call \in LifeCalls : Construct(call[1], call[2], call[3])
    \/ /\ last = Idle
       /\ \E i \in 1..Len(objs), u \in LifeU, v \in LifeV :
            CallStVenantKirchoff(i, u, v)
    \/ /\ last = Idle
       /\ \E i \in 1..Len(objs), u \in LifeU, v \in LifeV, S0 \in {None, Some(ZeroTensor(2))} :
            CallNeoHookean(i, u, v, S0)
    \/ /\ last = Idle
       /\ \E i \in 1..Len(objs), u \in LifeU, v \in LifeV, J_M \in {R(2)} :
            CallJacobianStiffening(i, u, v, J_M)
    \/ /\ last = Idle
       /\ \E i \in 1..Len(objs), op \in SharedResiduals :
            \E a \in SharedArgs(op) : CallShared(i, op, a)
    \/ /\ last = Idle
       /\ \E i \in 1..Len(objs), u \in LifeU : CallGetBasicTensors(i, u)
    \/ Continue

Spec == Init /\ [][Next]_vars

(***************************************************************************)
(* SpecEval: one law is constructed with all its keys, over a range of     *)
(* values, and evaluated on a range of fields.                             *)
(***************************************************************************)
NextEval ==
    \/ /\ last = Idle
       /\ \E cls \in Laws :
            \E props \in EvalProps(cls) :
               Len(objs) = 0 /\ Construct(cls, None, props)
    \/ /\ last = Idle
       /\ \E i \in 1..Len(objs), n \in Dims :
            \E gu \in Grads(n), gv \in BasisGrads(n) :
               CallStVenantKirchoff(i, Field(n, ZeroVector(n), gu),
                                       Field(n, ZeroVector(n), gv))
    \/ /\ last = Idle
       /\ \E i \in 1..Len(objs), n \in Dims :
            \E gu \in Grads(n), gv \in BasisGrads(n),
               S0 \in {None, Some(ZeroTensor(n)), Some(Identity(n))} :
               CallNeoHookean(i, Field(n, ZeroVector(n), gu),
                                 Field(n, ZeroVector(n), gv), S0)
    \/ /\ last = Idle
       /\ \E i \in 1..Len(objs), n \in Dims :
            \E gu \in Grads(n), gv \in BasisGrads(n), J_M \in MeshJacobians :
               CallJacobianStiffening(i, Field(n, ZeroVector(n), gu),
                                         Field(n, ZeroVector(n), gv), J_M)
    \/ /\ last = Idle
       /\ \E i \in 1..Len(objs), n \in Dims :
            \E gu \in Grads(n) :
               CallGetBasicTensors(i, Field(n, ZeroVector(n), gu))
    \/ Continue

SpecEval == Init /\ [][NextEval]_vars

(***************************************************************************)
(* SpecPure: the conversions and the stress formula on drawn arguments.    *)
(***************************************************************************)
NextPure ==
    \/ /\ last = Idle
       /\ \E f \in Conversions, E \in Youngs, nu \in Poissons : Convert(f, E, nu)
    \/ /\ last = Idle
       /\ \E n \in Dims :
            \E E \in SymTensors(n), kappa \in Moduli, mu \in Moduli :
               EvalStVenantKirchoffS(kappa, mu, E)
    \/ Continue

SpecPure == Init /\ [][NextPure]_vars

(***************************************************************************)
(* Properties.                                                             *)
(***************************************************************************)
\* The dict of the instance the last operation was called on.
LastProps == heap[objs[last.self].props]

\* The number of components of the displacement of the last operation.
LastDim == last.args.u.ufl_shape[1]

AtRest == grad(last.args.u) = ZeroTensor(LastDim)

\* C1: for a displacement at rest (grad(u) = 0) getBasicTensors yields F = I,
\* J = 1, C = I and E = 0, and for each law (NeoHookean with S0 omitted,
\* JacobianStiffening with a non-zero J_M) and every value of its properties
\* the stress S is the zero tensor and interiorResidual is zero, for every
\* test function.
C1_ZeroDisplacement ==
    /\ (last.op = "getBasicTensors" /\ AtRest) =>
          last.out = Returns([I |-> Identity(LastDim), F |-> Identity(LastDim),
                              J |-> R(1), C |-> Identity(LastDim),
                              E |-> ZeroTensor(LastDim)])
    /\ (/\ last.op = "interiorResidual"
        /\ AtRest
        /\ last.cls = "NeoHookean" => last.args.S0 = None
        /\ last.cls = "JacobianStiffening" => last.args.J_M # R(0)) =>
          /\ last.out.status = "ok"
          /\ IF last.cls = "NeoHookean"
             THEN /\ last.out.value.S = [pw |-> ZeroTensor(LastDim),
                                         rat |-> ZeroTensor(LastDim)]
                  /\ last.out.value.form = [pw |-> R(0), rat |-> R(0)]
             ELSE /\ last.out.value.S = ZeroTensor(LastDim)
                  /\ last.out.value.form = R(0)

\* A NeoHookean with non-zero moduli evaluated at rest in two dimensions.
C1_Witness ==
    /\ last.op = "interiorResidual"
    /\ last.cls = "NeoHookean"
    /\ grad(last.args.u) = ZeroTensor(2)
    /\ last.args.S0 = None
    /\ PropsGet([props |-> LastProps], "mu") # R(0)
    /\ last.out.value.form = [pw |-> R(0), rat |-> R(0)]

\* The keys each law needs: kappa and mu, or the stiffening exponent.
Required(cls) ==
    IF cls = "JacobianStiffening" THEN {"power_J_M"} ELSE {"kappa", "mu"}

C3_PowerSuffices ==
    (/\ last.op = "interiorResidual"
     /\ last.cls = "JacobianStiffening"
     /\ "power" \in Keys(LastProps)) =>
        /\ last.out.status = "ok"
        /\ last.out.value.K =
              bulkModulus(RDiv(R(1), pow(last.args.J_M,
                                         PropsGet([props |-> LastProps], "power"))),
                          Q(3, 10))

\* C4: constructing MaterialModel, or a subclass that does not define
\* interiorResidual, ends in a TypeError and leaves no instance behind; every
\* instance is of a class that overrides interiorResidual.
C4_AbstractNotInstantiable ==
    /\ []((last.op = "__init__" /\ last.cls \in {"MaterialModel", "Subclass"}) =>
             last.out.status = "TypeError")
    /\ [](\A i \in 1..Len(objs) :
             Resolve(objs[i].cls, "interiorResidual") \notin {"MaterialModel", "ABC"})
    /\ [][(last'.op = "__init__" /\ last'.out.status = "TypeError") =>
             UNCHANGED <<objs, heap>>]_vars

\* A subclass without interiorResidual refused while an instance exists.
C4_Witness ==
    /\ last.op = "__init__"
    /\ last.cls = "Subclass"
    /\ last.out.status = "TypeError"
    /\ Len(objs) = 1

\* C5: each shared residual is supplied by MaterialModel to all three laws,
\* and returns, on an instance of any law with any properties and the same
\* density, what it returned for the same arguments.
C5_SharedResidualsAgree ==
    last.op \in SharedResiduals =>
        /\ \A L \in Laws : Resolve(L, last.op) = "MaterialModel"
        /\ \A L \in Laws : \A P \in LifeProps(L) :
              InvokeShared(last.op,
                           [cls |-> L, rho |-> objs[last.self].rho, props |-> P],
                           last.args) = last.out.value

\* bodyforceResidual on a NeoHookean of density 2: -2 * (3*1 + 0*(-1)).
C5_Witness ==
    /\ last.op = "bodyforceResidual"
    /\ last.cls = "NeoHookean"
    /\ objs[last.self].rho = R(2)
    /\ last.out.value = R(-6)

\* C6: NeoHookean.interiorResidual with S0 omitted returns what it returns
\* with S0 the zero tensor of the displacement's dimension, and conversely.
C6_OmittedS0IsZero ==
    (last.op = "interiorResidual" /\ last.cls = "NeoHookean") =>
        /\ last.args.S0 = None =>
              last.out = NeoHookean_interiorResidual(
                            [cls |-> last.cls, rho |-> objs[last.self].rho,
                             props |-> LastProps],
                            last.args.u, last.args.v, Some(ZeroTensor(LastDim)))
        /\ last.args.S0 = Some(ZeroTensor(LastDim)) =>
              last.out = NeoHookean_interiorResidual(
                            [cls |-> last.cls, rho |-> objs[last.self].rho,
                             props |-> LastProps],
                            last.args.u, last.args.v, None)

\* S0 omitted on a deformed field, the residual not zero.
C6_Witness ==
    /\ last.op = "interiorResidual"
    /\ last.cls = "NeoHookean"
    /\ last.args.S0 = None
    /\ ~AtRest
    /\ last.out.status = "ok"
    /\ last.out.value.form.rat \notin {R(0), Sing}

\* C7: in JacobianStiffening.interiorResidual the moduli K and mu are
\* bulkModulus(1, 0.3) and shearModulus(1, 0.3) when J_M = 1, whatever
\* 'power_J_M' is; in general they are those scaled by J_M to the power
\* -power_J_M, whatever the displacement and so the law's own J.
C7_FictitiousModuli ==
    (last.op = "interiorResidual" /\ last.cls = "JacobianStiffening") =>
        LET scale == pow(last.args.J_M,
                         RNeg(PropsGet([props |-> LastProps], "power_J_M")))
        IN  /\ last.out.status = "ok"
            /\ last.args.J_M = R(1) =>
                  /\ last.out.value.K = bulkModulus(R(1), Q(3, 10))
                  /\ last.out.value.mu = shearModulus(R(1), Q(3, 10))
            /\ last.out.value.K = RMul(bulkModulus(R(1), Q(3, 10)), scale)
            /\ last.out.value.mu = RMul(shearModulus(R(1), Q(3, 10)), scale)

\* J_M = 2 and exponent 2 on a stretched field (J = 2): K = (5/6)/4.
C7_Witness ==
    /\ last.op = "interiorResidual"
    /\ last.cls = "JacobianStiffening"
    /\ last.args.J_M = R(2)
    /\ det(MAdd(grad(last.args.u), Identity(LastDim))) = R(2)
    /\ last.out.value.K = Q(5, 24)

\* C8: the St. Venant-Kirchhoff stress of alpha*E is alpha times the stress
\* of E, for every strain E, scalar alpha and moduli kappa and mu.
C8_StressLinearInStrain ==
    last.op = "StVenantKirchoff_S" =>
        \A alpha \in Scalings :
            StVenantKirchoff_S(last.args.kappa, last.args.mu,
                               Identity(Len(last.args.E)),
                               MScale(alpha, last.args.E))
              = MScale(alpha, last.out.value)

\* A shear strain in two dimensions with a stress that is not zero.
C8_Witness ==
    /\ last.op = "StVenantKirchoff_S"
    /\ Len(last.args.E) = 2
    /\ last.args.E[1][2] # R(0)
    /\ last.out.value # ZeroTensor(2)

\* C9: for nu other than -1 and 1/2, bulkModulus(E, nu) is
\* E*nu/((1+nu)(1-2nu)) + 2/3 * E/(2(1+nu)), firstLameParameter and
\* secondLameParameter are the two terms' formulas, and shearModulus(E, nu)
\* is E/(2(1+nu)).
C9_ModulusIdentities ==
    (last.op \in Conversions /\ last.args.nu \notin {R(-1), Q(1, 2)}) =>
        LET E == last.args.E
            nu == last.args.nu
            lambda == RDiv(RMul(E, nu),
                           RMul(RAdd(R(1), nu), RSub(R(1), RMul(R(2), nu))))
            shear == RDiv(E, RMul(R(2), RAdd(R(1), nu)))
        IN  /\ ~IsSing(last.out.value)
            /\ last.op = "bulkModulus" =>
                  last.out.value = RAdd(lambda, RMul(Q(2, 3), shear))
            /\ last.op = "shearModulus" => last.out.value = shear
            /\ last.op = "firstLameParameter" => last.out.value = lambda
            /\ last.op = "secondLameParameter" => last.out.value = shear

\* bulkModulus(5/2, 3/10) = (5/2)/(3*(1 - 3/5)) = 25/12.
C9_Witness ==
    /\ last.op = "bulkModulus"
    /\ last.args.E = Q(5, 2)
    /\ last.args.nu = Q(3, 10)
    /\ last.out.value = Q(25, 12)

\* C10: no step changes the density or the dict of an instance that exists,
\* whether the step is a call that returns, one that raises, or the
\* construction of another instance; and no two instances hold the same dict.
C10_InstancesImmutable ==
    /\ [][\A i \in 1..Len(objs) :
             /\ i <= Len(objs')
             /\ objs'[i].rho = objs[i].rho
             /\ heap'[objs'[i].props] = heap[objs[i].props]]_vars
    /\ [](\A i, j \in 1..Len(objs) : i # j => objs[i].props # objs[j].props)

\* Two instances, and a call on the second that ended in a KeyError.
C10_Witness ==
    /\ Len(objs) = 2
    /\ last.op = "interiorResidual"
    /\ last.self = 2
    /\ last.out.status = "KeyError"

====
